---------------------------- MODULE Spec2Model ----------------------------
(***************************************************************************)
(* Model of HIV_v2.js: the HIV recombinant sequence plotter.               *)
(*                                                                         *)
(* The program reads an annotation text, parses it into subtype regions    *)
(* (parseInput, colouring each through getColor), and renders the regions  *)
(* over the fixed gene map once per requested output (drawToContext for    *)
(* the PNG surface, then for the PDF surface).                             *)
(*                                                                         *)
(* Representation choices:                                                 *)
(*  - a text is the sequence of its lines (what text.split('\n') yields),  *)
(*    a line is a sequence of one-character strings;                       *)
(*  - a JS number is an integer, NaN is the record field nan = TRUE;       *)
(*  - a JS object used as a map is a function from its own property names; *)
(*  - a pixel coordinate is an exact rational kept as an integer multiple  *)
(*    of 1/Unit pixel (floating point rounding is not modelled);           *)
(*  - a drawing context is the sequence of calls issued on it.             *)
(***************************************************************************)
EXTENDS Integers, Sequences, FiniteSets, TLC

VARIABLES
    pc,                 \* position of the main program
    inputText,          \* content of the input file, as its lines
    params,             \* params.png / params.pdf: is the output requested
    regions,            \* const regions of the main program
    regionLine,         \* history: index of the line each region came from
    assignedColors,     \* const assignedColors = {}
    fallbackColorIndex, \* let fallbackColorIndex = 0
    console,            \* console.log / console.warn / console.error calls
    files,              \* output files written so far
    pngOps,             \* drawing calls issued on the PNG context
    pdfOps,             \* drawing calls issued on the PDF context
    exitCode,           \* process exit status ("none" while running)
    breakpoints,        \* result of the last calculateBreakpoints call
    call                \* history of the last getColor call (SpecColor)

vars == <<pc, inputText, params, regions, regionLine, assignedColors,
          fallbackColorIndex, console, files, pngOps, pdfOps, exitCode,
          breakpoints, call>>

-----------------------------------------------------------------------------
(* Bounds of the model                                                     *)

\* longest input text, in lines
MaxLines == 3
\* longest region list handed to calculateBreakpoints in SpecBP
MaxRegions == 3
\* number of distinct novel labels getColor may see in SpecColor
MaxNovel == 11

-----------------------------------------------------------------------------
(* Colour configuration                                                    *)

DEFAULT_COLORS ==
    ("A" :> "#FF0000") @@ ("A1" :> "#FF5700") @@ ("A2" :> "#FF7E5E") @@
    ("B" :> "#3F98F2") @@ ("C" :> "#9D6039") @@ ("D" :> "#E3A1C9") @@
    ("E" :> "#FFFF64") @@ ("F" :> "#BEE120") @@ ("F1" :> "#C5CAFF") @@
    ("F2" :> "#97D7FF") @@ ("G" :> "#4FAE57") @@ ("H" :> "#FFD700") @@
    ("J" :> "#20D7CF") @@ ("J1" :> "#FFB600") @@ ("J2" :> "#FFD700") @@
    ("K" :> "#7C45D9") @@ ("01" :> "#7C45D9") @@ ("02" :> "#D7B320") @@
    ("?" :> "#DCDCDC") @@ ("U" :> "#DCDCDC")

FALLBACK_COLORS ==
    << "#FF6347", "#20B2AA", "#DDA0DD", "#F0E68C", "#BC8F8F",
       "#4682B4", "#D2691E", "#6B8E23", "#CD5C5C", "#708090" >>

\* the empty object {}
EmptyObject == [k \in {} |-> ""]

\* obj.hasOwnProperty(key), when obj.hasOwnProperty is still the method
\* inherited from Object.prototype
hasOwnProperty(obj, key) == key \in DOMAIN obj

\* obj.hasOwnProperty is looked up like any property: once the object has an
\* own property named "hasOwnProperty" (here it would hold a colour string),
\* the call obj.hasOwnProperty(...) throws a TypeError.
methodShadowed(obj) == "hasOwnProperty" \in DOMAIN obj

\* obj[key] = value.  For key "__proto__" the assignment runs the setter
\* inherited from Object.prototype, which ignores a value that is neither an
\* object nor null: no own property is created.
setProperty(obj, key, value) ==
    IF key = "__proto__" THEN obj ELSE (key :> value) @@ obj

\* getColor(subtype) on the registry (assigned, index): the colour returned
\* (or the throw) and the registry after the call
getColor(assigned, index, subtype) ==
    IF hasOwnProperty(DEFAULT_COLORS, subtype)
    THEN [threw |-> FALSE, color |-> DEFAULT_COLORS[subtype],
          assigned |-> assigned, index |-> index]
    ELSE IF methodShadowed(assigned)
    THEN [threw |-> TRUE, color |-> "TypeError",
          assigned |-> assigned, index |-> index]
    ELSE IF hasOwnProperty(assigned, subtype)
    THEN [threw |-> FALSE, color |-> assigned[subtype],
          assigned |-> assigned, index |-> index]
    ELSE LET color == FALLBACK_COLORS[(index % Len(FALLBACK_COLORS)) + 1]
         IN  [threw |-> FALSE, color |-> color,
              assigned |-> setProperty(assigned, subtype, color),
              index |-> index + 1]

-----------------------------------------------------------------------------
(* Strings, as sequences of one-character strings                          *)

\* the characters String.prototype.trim strips and /[\s\t]+/ matches
isSpace(c) == c \in {" ", "\t"}

RECURSIVE trimStart(_)
trimStart(s) ==
    IF s # <<>> /\ isSpace(Head(s)) THEN trimStart(Tail(s)) ELSE s

RECURSIVE trimEnd(_)
trimEnd(s) ==
    IF s # <<>> /\ isSpace(s[Len(s)])
    THEN trimEnd(SubSeq(s, 1, Len(s) - 1)) ELSE s

\* s.trim()
trim(s) == trimEnd(trimStart(s))

\* s.startsWith(c)
startsWith(s, c) == s # <<>> /\ Head(s) = c

\* the longest prefix of s without whitespace
RECURSIVE takeToken(_)
takeToken(s) ==
    IF s = <<>> \/ isSpace(Head(s)) THEN <<>>
    ELSE <<Head(s)>> \o takeToken(Tail(s))

\* s.split(/[\s\t]+/) of a trimmed, non-empty s
RECURSIVE split(_)
split(s) ==
    LET tok  == takeToken(s)
        rest == trimStart(SubSeq(s, Len(tok) + 1, Len(s)))
    IN  IF rest = <<>> THEN <<tok>> ELSE <<tok>> \o split(rest)

\* the characters of s as one string
RECURSIVE str(_)
str(s) == IF s = <<>> THEN "" ELSE Head(s) \o str(Tail(s))

\* parts.join(' ')
RECURSIVE join(_)
join(parts) ==
    IF parts = <<>> THEN ""
    ELSE IF Len(parts) = 1 THEN str(parts[1])
    ELSE str(parts[1]) \o " " \o join(Tail(parts))

DigitValue ==
    ("0" :> 0) @@ ("1" :> 1) @@ ("2" :> 2) @@ ("3" :> 3) @@ ("4" :> 4) @@
    ("5" :> 5) @@ ("6" :> 6) @@ ("7" :> 7) @@ ("8" :> 8) @@ ("9" :> 9)

isDigit(c) == c \in DOMAIN DigitValue

\* the longest prefix of s made of decimal digits
RECURSIVE digitPrefix(_)
digitPrefix(s) ==
    IF s = <<>> \/ ~isDigit(Head(s)) THEN <<>>
    ELSE <<Head(s)>> \o digitPrefix(Tail(s))

RECURSIVE digitsValue(_)
digitsValue(d) ==
    IF d = <<>> THEN 0
    ELSE 10 * digitsValue(SubSeq(d, 1, Len(d) - 1)) + DigitValue[d[Len(d)]]

NaN == [nan |-> TRUE, val |-> 0]

\* parseInt(s, 10): an optional sign, then the longest run of decimal
\* digits; whatever follows the digits is ignored; NaN without a digit
parseInt(s) ==
    LET negative == startsWith(s, "-")
        body     == IF negative \/ startsWith(s, "+") THEN Tail(s) ELSE s
        digits   == digitPrefix(body)
    IN  IF digits = <<>> THEN NaN
        ELSE [nan |-> FALSE,
              val |-> IF negative THEN 0 - digitsValue(digits)
                      ELSE digitsValue(digits)]

-----------------------------------------------------------------------------
(* Input parsing                                                           *)

\* the mutant of isBlankText: no early return
isBlankText_never(text) == FALSE

\* !text || text.trim() === '' : the text holds whitespace only
isBlankText(text) == \A i \in 1..Len(text) : trim(text[i]) = <<>>

\* the mutant of normalize: the pair is kept as written
normalize_asWritten(start, end) == [start |-> start, end |-> end]

\* let finalStart = start, finalEnd = end;
\* if (start > end) { finalStart = end; finalEnd = start; }
normalize(start, end) ==
    IF start > end THEN [start |-> end, end |-> start]
    ELSE [start |-> start, end |-> end]

\* one turn of the for loop of parseInput, on lines[i] (i from 1), from the
\* loop state st
parseLine(lines, i, st) ==
    LET line == trim(lines[i])
    IN  IF line = <<>> THEN st
        ELSE IF startsWith(line, "#") THEN st
        ELSE IF startsWith(line, ">") THEN
            [st EXCEPT !.headerFound = TRUE,
                       !.console = Append(@, [ch |-> "log", msg |-> "header",
                                              text |-> str(line)])]
        ELSE IF ~st.headerFound THEN st
        ELSE LET parts == split(line)
             IN  IF Len(parts) < 3 THEN
                     [st EXCEPT !.console =
                         Append(@, [ch |-> "warn", msg |-> "bad_format",
                                    lineNo |-> i])]
                 ELSE LET start   == parseInt(parts[1])
                          end     == parseInt(parts[2])
                          subtype == join(SubSeq(parts, 3, Len(parts)))
                      IN  IF start.nan \/ end.nan THEN st
                          ELSE IF subtype = "" THEN st
                          ELSE LET n == normalize(start.val, end.val)
                                   c == getColor(st.assigned, st.index, subtype)
                               IN  IF c.threw THEN [st EXCEPT !.threw = TRUE]
                                   ELSE [st EXCEPT
                                       !.assigned = c.assigned,
                                       !.index = c.index,
                                       !.regions = Append(@,
                                           [start |-> n.start, end |-> n.end,
                                            subtype |-> subtype,
                                            color |-> c.color]),
                                       !.regionLine = Append(@, i)]

\* the for loop of parseInput from line i on; a throw ends it
RECURSIVE parseLoop(_, _, _)
parseLoop(lines, i, st) ==
    IF i > Len(lines) \/ st.threw THEN st
    ELSE parseLoop(lines, i + 1, parseLine(lines, i, st))

\* parseInput(text) with the registry (assigned, index): the regions
\* returned (or the throw), the registry and the console after the call
parseInput(text, assigned, index, out) ==
    LET st0 == [regions |-> <<>>, regionLine |-> <<>>, assigned |-> assigned,
                index |-> index, console |-> out, headerFound |-> FALSE,
                threw |-> FALSE]
    IN  IF isBlankText(text) THEN st0
        ELSE LET st == parseLoop(text, 1, st0)
             IN  IF ~st.threw /\ ~st.headerFound
                 THEN [st EXCEPT !.console =
                          Append(@, [ch |-> "warn", msg |-> "no_header"])]
                 ELSE st

-----------------------------------------------------------------------------
(* Breakpoints                                                             *)

\* arr with x inserted after the last element whose start is <= x.start
RECURSIVE insertByStart(_, _)
insertByStart(arr, x) ==
    IF arr = <<>> THEN <<x>>
    ELSE IF arr[Len(arr)].start <= x.start THEN Append(arr, x)
    ELSE Append(insertByStart(SubSeq(arr, 1, Len(arr) - 1), x), arr[Len(arr)])

\* arr.sort((a, b) => a.start - b.start): ascending by start, stable
RECURSIVE sortByStart(_)
sortByStart(arr) ==
    IF arr = <<>> THEN <<>>
    ELSE insertByStart(sortByStart(SubSeq(arr, 1, Len(arr) - 1)),
                       arr[Len(arr)])

\* the mutant of sortedCopy: regions.sort(...) sorts the caller's array
sortedCopy_inPlace(arr) ==
    [sorted |-> sortByStart(arr), arr |-> sortByStart(arr)]

\* const sortedRegions = [...regions].sort(...): the sorted copy, and the
\* caller's array after the statement
sortedCopy(arr) == [sorted |-> sortByStart(arr), arr |-> arr]

\* a mutant of pushBreakpoints: a start is pushed for the first region only
pushBreakpoints_firstStartOnly(sortedRegions, i) ==
    LET region == sortedRegions[i]
    IN  (IF i = 1
         THEN << [position |-> region.start, displayValue |-> region.start,
                  isFirst |-> TRUE, isLast |-> FALSE] >>
         ELSE <<>>)
        \o (IF i = Len(sortedRegions)
            THEN << [position |-> region.end, displayValue |-> region.end,
                     isFirst |-> FALSE, isLast |-> TRUE] >>
            ELSE <<>>)

\* a mutant of pushBreakpoints: the end is pushed only when there are
\* several regions
pushBreakpoints_endIfSeveral(sortedRegions, i) ==
    LET region == sortedRegions[i]
    IN  << [position |-> region.start, displayValue |-> region.start,
            isFirst |-> (i = 1), isLast |-> FALSE] >>
        \o (IF i = Len(sortedRegions) /\ Len(sortedRegions) > 1
            THEN << [position |-> region.end, displayValue |-> region.end,
                     isFirst |-> FALSE, isLast |-> TRUE] >>
            ELSE <<>>)

\* the breakpoints pushed by turn i (from 1) of the loop over sortedRegions
pushBreakpoints(sortedRegions, i) ==
    LET region == sortedRegions[i]
    IN  << [position |-> region.start, displayValue |-> region.start,
            isFirst |-> (i = 1), isLast |-> FALSE] >>
        \o (IF i = Len(sortedRegions)
            THEN << [position |-> region.end, displayValue |-> region.end,
                     isFirst |-> FALSE, isLast |-> TRUE] >>
            ELSE <<>>)

RECURSIVE breakpointLoop(_, _)
breakpointLoop(sortedRegions, i) ==
    IF i > Len(sortedRegions) THEN <<>>
    ELSE pushBreakpoints(sortedRegions, i)
         \o breakpointLoop(sortedRegions, i + 1)

\* calculateBreakpoints(regions): the list returned, and the argument array
\* after the call
calculateBreakpoints(arr) ==
    IF arr = <<>> THEN [breakpoints |-> <<>>, arr |-> arr]
    ELSE LET c == sortedCopy(arr)
         IN  [breakpoints |-> breakpointLoop(c.sorted, 1), arr |-> c.arr]

-----------------------------------------------------------------------------
(* Gene map and render configuration                                       *)

GENE_MAP == <<
    \* Row 1
    [name |-> "5' LTR", start |-> 1, end |-> 634, row |-> 1,
     bgColor |-> "#CCCCCC", noOverlay |-> FALSE],
    [name |-> "gag", start |-> 790, end |-> 2292, row |-> 1,
     bgColor |-> "#CCCCCC", noOverlay |-> FALSE],
    [name |-> "vif", start |-> 5041, end |-> 5619, row |-> 1,
     bgColor |-> "#CCCCCC", noOverlay |-> FALSE],
    [name |-> "", start |-> 8379, end |-> 8469, row |-> 1,
     bgColor |-> "#CCCCCC", noOverlay |-> FALSE],
    [name |-> "nef", start |-> 8797, end |-> 9417, row |-> 1,
     bgColor |-> "#FFFFFF", noOverlay |-> FALSE],
    \* Row 2
    [name |-> "", start |-> 5831, end |-> 6045, row |-> 2,
     bgColor |-> "#FFB6C1", noOverlay |-> TRUE],
    [name |-> "vpu", start |-> 6062, end |-> 6310, row |-> 2,
     bgColor |-> "#CCCCCC", noOverlay |-> FALSE],
    [name |-> "", start |-> 8379, end |-> 8653, row |-> 2,
     bgColor |-> "#CCCCCC", noOverlay |-> FALSE],
    [name |-> "3' LTR", start |-> 9086, end |-> 9719, row |-> 2,
     bgColor |-> "#FFFFFF", noOverlay |-> FALSE],
    \* Row 3
    [name |-> "pol", start |-> 2085, end |-> 5096, row |-> 3,
     bgColor |-> "#CCCCCC", noOverlay |-> FALSE],
    [name |-> "vpr", start |-> 5559, end |-> 5850, row |-> 3,
     bgColor |-> "#CCCCCC", noOverlay |-> FALSE],
    [name |-> "", start |-> 5970, end |-> 6045, row |-> 3,
     bgColor |-> "#CCCCCC", noOverlay |-> FALSE],
    [name |-> "env", start |-> 6225, end |-> 8795, row |-> 3,
     bgColor |-> "#CCCCCC", noOverlay |-> FALSE] >>

RENDER_CONFIG ==
    [width |-> 900, height |-> 300,
     margin |-> [top |-> 60, right |-> 50, bottom |-> 80, left |-> 50],
     geneRowHeight |-> 25, geneRowGap |-> 10,
     axisRange |-> <<0, 9719>>]

\* Coordinates are integer multiples of 1/Unit pixel: every x the program
\* computes is a multiple of 1/(2 * domain width) pixel, every y of 1/2.
Unit == 2 * (RENDER_CONFIG.axisRange[2] - RENDER_CONFIG.axisRange[1])

\* n pixels
Px(n) == n * Unit

\* the function createXScale() returns:
\* range[0] + (value - domain[0]) / (domain[1] - domain[0]) * (range[1] - range[0])
xScale(value) ==
    LET domain == RENDER_CONFIG.axisRange
        range  == << RENDER_CONFIG.margin.left,
                     RENDER_CONFIG.width - RENDER_CONFIG.margin.right >>
    IN  Px(range[1]) + 2 * (value - domain[1]) * (range[2] - range[1])

\* getRowY of drawToContext
getRowY(row) ==
    Px(RENDER_CONFIG.margin.top + 20
       + (row - 1) * (RENDER_CONFIG.geneRowHeight + RENDER_CONFIG.geneRowGap))

\* RENDER_CONFIG.geneRowHeight, on the surface
RowHeight == Px(RENDER_CONFIG.geneRowHeight)

Math_max(a, b) == IF a >= b THEN a ELSE b
Math_min(a, b) == IF a <= b THEN a ELSE b

\* value.toString() of an integer
RECURSIVE natToString(_)
natToString(n) ==
    LET d == CHOOSE c \in DOMAIN DigitValue : DigitValue[c] = n % 10
    IN  IF n < 10 THEN d ELSE natToString(n \div 10) \o d

toString(n) == IF n < 0 THEN "-" \o natToString(0 - n) ELSE natToString(n)

-----------------------------------------------------------------------------
(* The drawing surface: the calls issued on a 2D context, in order         *)

\* ctx.<property> = value
Set(property, value) == [call |-> "set", property |-> property, value |-> value]

FillRect(x, y, w, h) == [call |-> "fillRect", x |-> x, y |-> y, w |-> w, h |-> h]

StrokeRect(x, y, w, h) ==
    [call |-> "strokeRect", x |-> x, y |-> y, w |-> w, h |-> h]

FillText(text, x, y) == [call |-> "fillText", text |-> text, x |-> x, y |-> y]

BeginPath == [call |-> "beginPath"]

MoveTo(x, y) == [call |-> "moveTo", x |-> x, y |-> y]

LineTo(x, y) == [call |-> "lineTo", x |-> x, y |-> y]

Stroke == [call |-> "stroke"]

Save == [call |-> "save"]

Restore == [call |-> "restore"]

Translate(x, y) == [call |-> "translate", x |-> x, y |-> y]

\* ctx.rotate(angle), the angle kept as written
Rotate(angle) == [call |-> "rotate", angle |-> angle]

-----------------------------------------------------------------------------
(* drawToContext, pass by pass: the calls each pass issues                 *)

\* white background
drawBackground(width, height) ==
    << Set("fillStyle", "white"), FillRect(0, 0, Px(width), Px(height)) >>

\* 1. the body of GENE_MAP.forEach(gene => ...): the gene's block
drawGene(gene) ==
    LET x == xScale(gene.start)
        y == getRowY(gene.row)
        w == xScale(gene.end) - xScale(gene.start)
    IN  << Set("fillStyle", gene.bgColor), FillRect(x, y, w, RowHeight) >>
        \o (IF gene.name = "nef" \/ gene.name = "3' LTR"
            THEN << Set("strokeStyle", "#000000"), Set("lineWidth", "0.2"),
                    StrokeRect(x, y, w, RowHeight) >>
            ELSE <<>>)

RECURSIVE drawGenes(_)
drawGenes(i) ==
    IF i > Len(GENE_MAP) THEN <<>>
    ELSE drawGene(GENE_MAP[i]) \o drawGenes(i + 1)

\* the mutant of overlaps: touching spans count as overlapping
overlaps_inclusive(overlapStart, overlapEnd) == overlapStart <= overlapEnd

\* if (overlapStart < overlapEnd)
overlaps(overlapStart, overlapEnd) == overlapStart < overlapEnd

\* 2. the body of the inner GENE_MAP.forEach(gene => ...) for one region
drawOverlay(region, gene) ==
    LET overlapStart == Math_max(region.start, gene.start)
        overlapEnd   == Math_min(region.end, gene.end)
    IN  IF overlaps(overlapStart, overlapEnd)
        THEN << Set("globalAlpha", "0.8"),
                Set("fillStyle", region.color),
                FillRect(xScale(overlapStart), getRowY(gene.row),
                         xScale(overlapEnd) - xScale(overlapStart), RowHeight),
                Set("globalAlpha", "1.0") >>
        ELSE <<>>

RECURSIVE drawRegion(_, _)
drawRegion(region, j) ==
    IF j > Len(GENE_MAP) THEN <<>>
    ELSE drawOverlay(region, GENE_MAP[j]) \o drawRegion(region, j + 1)

RECURSIVE drawRegions(_, _)
drawRegions(arr, i) ==
    IF i > Len(arr) THEN <<>>
    ELSE drawRegion(arr[i], 1) \o drawRegions(arr, i + 1)

\* 3. gene names, for the genes whose name is not empty
drawGeneName(gene) ==
    LET x == xScale(gene.start) + (xScale(gene.end) - xScale(gene.start)) \div 2
        y == getRowY(gene.row) + RowHeight \div 2
    IN  << FillText(gene.name, x, y) >>

RECURSIVE drawGeneNameLoop(_)
drawGeneNameLoop(i) ==
    IF i > Len(GENE_MAP) THEN <<>>
    ELSE (IF GENE_MAP[i].name # "" THEN drawGeneName(GENE_MAP[i]) ELSE <<>>)
         \o drawGeneNameLoop(i + 1)

drawGeneNames ==
    << Set("font", "12px \"Liberation Sans\", Arial, sans-serif"),
       Set("fillStyle", "#333333"),
       Set("textAlign", "center"),
       Set("textBaseline", "middle") >>
    \o drawGeneNameLoop(1)

\* 4. the tat and rev connector lines
drawConnectors ==
    LET \* tat
        tatFromX == xScale(6045)
        tatToX   == xScale(8379)
        tatFromY == getRowY(2) - Px(5)
        tatToY   == getRowY(1) + RowHeight \div 2
        \* rev
        revFromX == xScale(6045)
        revToX   == xScale(8379)
        revFromY == getRowY(3)
        revToY   == getRowY(2) + RowHeight \div 2
        revMidY  == revFromY - Px(5)
        revTurnX == xScale(7200)
    IN  << Set("strokeStyle", "#666666"), Set("lineWidth", "1"),
           BeginPath, MoveTo(tatFromX, tatFromY), LineTo(tatFromX, tatToY),
           LineTo(tatToX, tatToY), Stroke,
           FillText("tat", (tatFromX + tatToX) \div 2, tatToY - Px(5)),
           BeginPath, MoveTo(revFromX, revFromY), LineTo(revFromX, revMidY),
           LineTo(revTurnX, revMidY), LineTo(revToX, revToY), Stroke,
           FillText("rev", (revFromX + revTurnX) \div 2 + Px(30),
                    revMidY - Px(5)) >>

\* 5. the body of breakpoints.forEach(bp => ...): a tick and its number
drawBreakpoint(bp) ==
    LET tickStartY == Px(RENDER_CONFIG.margin.top + 20 - 11)
        tickEndY   == tickStartY + Px(8)
        numberY    == tickStartY - Px(3)
        x == xScale(bp.position)
    IN  << BeginPath, MoveTo(x, tickStartY), LineTo(x, tickEndY), Stroke,
           Save, Translate(x + Px(4), numberY), Rotate("-Math.PI / 2"),
           Set("textAlign", "left"),
           FillText(toString(bp.displayValue), 0, 0), Restore >>

RECURSIVE drawBreakpointLoop(_, _)
drawBreakpointLoop(bps, i) ==
    IF i > Len(bps) THEN <<>>
    ELSE drawBreakpoint(bps[i]) \o drawBreakpointLoop(bps, i + 1)

drawBreakpoints(bps) ==
    << Set("strokeStyle", "#333333"),
       Set("font", "11px \"Liberation Sans\", Arial, sans-serif") >>
    \o drawBreakpointLoop(bps, 1)

\* 6. the axis line and its ticks
AxisTicks == <<0, 1000, 2000, 3000, 4000, 5000, 6000, 7000, 8000, 9000, 9719>>

drawAxisTick(value, axisY) ==
    LET x == xScale(value)
    IN  << BeginPath, MoveTo(x, axisY), LineTo(x, axisY + Px(5)), Stroke,
           Set("fillStyle", "#7f8c8d"),
           Set("font", "10px \"Liberation Sans\", Arial, sans-serif"),
           FillText(toString(value), x, axisY + Px(15)) >>

RECURSIVE drawAxisTicks(_, _)
drawAxisTicks(axisY, i) ==
    IF i > Len(AxisTicks) THEN <<>>
    ELSE drawAxisTick(AxisTicks[i], axisY) \o drawAxisTicks(axisY, i + 1)

drawAxis ==
    LET axisY == getRowY(3) + RowHeight + Px(10)
    IN  << Set("strokeStyle", "#bdc3c7"), BeginPath,
           MoveTo(Px(RENDER_CONFIG.margin.left), axisY),
           LineTo(Px(RENDER_CONFIG.width - RENDER_CONFIG.margin.right), axisY),
           Stroke >>
        \o drawAxisTicks(axisY, 1)

\* 7. subtypeMap.has(r.subtype) || subtypeMap.set(r.subtype, r.color), the
\* Map kept as its entries in insertion order
mapHas(entries, key) == \E k \in 1..Len(entries) : entries[k].subtype = key

\* the mutant of legendAdd: an entry per region, seen before or not
legendAdd_noDedupe(entries, r) ==
    Append(entries, [subtype |-> r.subtype, color |-> r.color])

legendAdd(entries, r) ==
    IF mapHas(entries, r.subtype) THEN entries
    ELSE Append(entries, [subtype |-> r.subtype, color |-> r.color])

RECURSIVE legendData(_)
legendData(arr) ==
    IF arr = <<>> THEN <<>>
    ELSE legendAdd(legendData(SubSeq(arr, 1, Len(arr) - 1)), arr[Len(arr)])

\* the body of legendData.forEach((item, i) => ...), i from 0
drawLegendItem(item, i) ==
    LET legendY == Px(RENDER_CONFIG.height - 30)
        x == Px(RENDER_CONFIG.margin.left + i * 80)
    IN  << Set("fillStyle", item.color),
           FillRect(x, legendY, Px(15), Px(15)),
           Set("strokeStyle", "#999999"), Set("lineWidth", "0.5"),
           StrokeRect(x, legendY, Px(15), Px(15)),
           Set("fillStyle", "#333333"),
           Set("font", "11px \"Liberation Sans\", Arial, sans-serif"),
           Set("textAlign", "left"),
           FillText(item.subtype, x + Px(20), legendY + Px(12)) >>

RECURSIVE drawLegendLoop(_, _)
drawLegendLoop(items, i) ==
    IF i >= Len(items) THEN <<>>
    ELSE drawLegendItem(items[i + 1], i) \o drawLegendLoop(items, i + 1)

drawLegend(arr) == drawLegendLoop(legendData(arr), 0)

\* drawToContext(ctx, width, height, regions), ctx given as the calls already
\* issued on the context: the calls on it after the call, the regions array
\* after the call, and the breakpoints computed
drawToContext(ctx, width, height, arr) ==
    LET bp == calculateBreakpoints(arr)
    IN  [ctx |-> ctx
                 \o drawBackground(width, height)
                 \o drawGenes(1)
                 \o drawRegions(arr, 1)
                 \o drawGeneNames
                 \o drawConnectors
                 \o drawBreakpoints(bp.breakpoints)
                 \o drawAxis
                 \o drawLegend(bp.arr),
         regions |-> bp.arr,
         breakpoints |-> bp.breakpoints]

-----------------------------------------------------------------------------
(* Input texts                                                             *)

\* ' ': a line of whitespace
L_blank ==
    <<" ">>

\* '# 1 2 B': a comment
L_comment ==
    <<"#", " ", "1", " ", "2", " ", "B">>

\* '>s1': a header
L_header ==
    <<">", "s", "1">>

\* '100 500 B'
L_B ==
    <<"1", "0", "0", " ", "5", "0", "0", " ", "B">>

\* '500 1000 A1'
L_A1 ==
    <<"5", "0", "0", " ", "1", "0", "0", "0", " ", "A", "1">>

\* ' 20<tab>10  X 1 ': end before start, tabs and spaces, a label of two words
L_X1 ==
    <<" ", "2", "0", "\t", "1", "0", " ", " ", "X", " ", "1", " ">>

\* '5 7': two fields only
L_short ==
    <<"5", " ", "7">>

\* '6x -9 B': digits followed by a letter, a negative number
L_prefix ==
    <<"6", "x", " ", "-", "9", " ", "B">>

\* 'a 5 B': no digit in the first field
L_nan ==
    <<"a", " ", "5", " ", "B">>

\* '634 790 __proto__': touches 5' LTR and gag at their ends
L_proto ==
    <<"6", "3", "4", " ", "7", "9", "0", " ", "_", "_", "p", "r", "o", "t", "o", "_", "_">>

\* '3 4 hasOwnProperty'
L_hop ==
    <<"3", " ", "4", " ", "h", "a", "s", "O", "w", "n", "P", "r", "o", "p", "e", "r", "t", "y">>

LineSet ==
    {L_blank, L_comment, L_header, L_B,
     L_A1, L_X1, L_short, L_prefix,
     L_nan, L_proto, L_hop}

\* the texts of 1 to n lines
Texts(n) == UNION {[1..k -> LineSet] : k \in 1..n}

\* the outputs asked for on the command line: at least one of -png, -pdf
Params == {p \in [png : BOOLEAN, pdf : BOOLEAN] : p.png \/ p.pdf}

NoCall == [n |-> 0]

-----------------------------------------------------------------------------
(* The main program                                                        *)

\* The state once the command line is accepted and the input file exists.
Init ==
    /\ pc = "parse"
    /\ inputText \in Texts(MaxLines)
    /\ params \in Params
    /\ regions = <<>>
    /\ regionLine = <<>>
    /\ assignedColors = EmptyObject
    /\ fallbackColorIndex = 0
    /\ console = <<>>
    /\ files = {}
    /\ pngOps = <<>>
    /\ pdfOps = <<>>
    /\ exitCode = "none"
    /\ breakpoints = <<>>
    /\ call = NoCall

\* the mutant of fatalWhenEmpty: the run goes on with no region
fatalWhenEmpty_never(arr) == FALSE

\* if (regions.length === 0)
fatalWhenEmpty(arr) == Len(arr) = 0

\* try { read the input, parseInput, refuse an empty result }
MainParse ==
    /\ pc = "parse"
    /\ LET out == Append(console, [ch |-> "log", msg |-> "reading"])
           r   == parseInput(inputText, assignedColors, fallbackColorIndex, out)
       IN  /\ assignedColors' = r.assigned
           /\ fallbackColorIndex' = r.index
           /\ IF r.threw THEN
                  \* catch (error): the regions were never returned
                  /\ regions' = <<>>
                  /\ regionLine' = <<>>
                  /\ console' = Append(r.console,
                                       [ch |-> "error", msg |-> "uncaught"])
                  /\ pc' = "exit"
                  /\ exitCode' = 1
              ELSE IF fatalWhenEmpty(r.regions) THEN
                  /\ regions' = r.regions
                  /\ regionLine' = r.regionLine
                  /\ console' = Append(r.console,
                                       [ch |-> "error", msg |-> "no_data"])
                  /\ pc' = "exit"
                  /\ exitCode' = 1
              ELSE
                  /\ regions' = r.regions
                  /\ regionLine' = r.regionLine
                  /\ console' = Append(r.console,
                                       [ch |-> "log", msg |-> "parsed",
                                        count |-> Len(r.regions)])
                  /\ pc' = "png"
                  /\ exitCode' = exitCode
    /\ UNCHANGED <<inputText, params, files, pngOps, pdfOps, breakpoints, call>>

\* if (params.png) { draw on a fresh canvas, write the PNG file }
MainPng ==
    /\ pc = "png"
    /\ IF params.png THEN
           LET d == drawToContext(<<>>, RENDER_CONFIG.width,
                                  RENDER_CONFIG.height, regions)
           IN  /\ pngOps' = d.ctx
               /\ regions' = d.regions
               /\ breakpoints' = d.breakpoints
               /\ files' = files \cup {"png"}
               /\ console' = Append(console, [ch |-> "log", msg |-> "png_saved"])
       ELSE UNCHANGED <<pngOps, regions, breakpoints, files, console>>
    /\ pc' = "pdf"
    /\ UNCHANGED <<inputText, params, regionLine, assignedColors,
                   fallbackColorIndex, pdfOps, exitCode, call>>

\* if (params.pdf) { draw on a fresh canvas, write the PDF file }; the
\* program then ends with status 0
MainPdf ==
    /\ pc = "pdf"
    /\ IF params.pdf THEN
           LET d == drawToContext(<<>>, RENDER_CONFIG.width,
                                  RENDER_CONFIG.height, regions)
           IN  /\ pdfOps' = d.ctx
               /\ regions' = d.regions
               /\ breakpoints' = d.breakpoints
               /\ files' = files \cup {"pdf"}
               /\ console' = Append(console, [ch |-> "log", msg |-> "pdf_saved"])
       ELSE UNCHANGED <<pdfOps, regions, breakpoints, files, console>>
    /\ pc' = "done"
    /\ exitCode' = 0
    /\ UNCHANGED <<inputText, params, regionLine, assignedColors,
                   fallbackColorIndex, pngOps, call>>

Next == MainParse \/ MainPng \/ MainPdf

Spec == Init /\ [][Next]_vars

-----------------------------------------------------------------------------
(* calculateBreakpoints on its own                                         *)

\* positions a region of SpecBP starts and ends at
BPPositions == {100, 200, 300}

\* regions as parseInput builds them: start <= end
BPRegions ==
    {r \in [start : BPPositions, end : BPPositions,
            subtype : {"B"}, color : {DEFAULT_COLORS["B"]}] :
        r.start <= r.end}

InitBP ==
    /\ pc = "bp"
    /\ regions \in UNION {[1..k -> BPRegions] : k \in 0..MaxRegions}
    /\ inputText = <<>>
    /\ params = [png |-> FALSE, pdf |-> FALSE]
    /\ regionLine = <<>>
    /\ assignedColors = EmptyObject
    /\ fallbackColorIndex = 0
    /\ console = <<>>
    /\ files = {}
    /\ pngOps = <<>>
    /\ pdfOps = <<>>
    /\ exitCode = "none"
    /\ breakpoints = <<>>
    /\ call = NoCall

\* const breakpoints = calculateBreakpoints(regions)
BPCall ==
    /\ pc = "bp"
    /\ LET r == calculateBreakpoints(regions)
       IN  /\ breakpoints' = r.breakpoints
           /\ regions' = r.arr
    /\ pc' = "bp_done"
    /\ UNCHANGED <<inputText, params, regionLine, assignedColors,
                   fallbackColorIndex, console, files, pngOps, pdfOps,
                   exitCode, call>>

NextBP == BPCall

SpecBP == InitBP /\ [][NextBP]_vars

-----------------------------------------------------------------------------
(* getColor on its own                                                     *)

\* Labels with no default colour.  getColor treats them alike, so a new one
\* is always taken to be the first of these not seen yet.
NovelNames ==
    << "X1", "X2", "X3", "X4", "X5", "X6", "X7", "X8", "X9", "X10", "X11",
       "X12", "X13", "X14" >>

NovelLabels == {NovelNames[i] : i \in 1..Math_min(MaxNovel, Len(NovelNames))}

\* labels that name a property every object inherits
InheritedNames == {"__proto__", "hasOwnProperty"}

\* labels with a default colour that the calls use
DefaultLabels == {"B", "?"}

\* the cursor value beyond which SpecColor makes no further call
MaxCursor == 11

InitColor ==
    /\ pc = "color"
    /\ assignedColors = EmptyObject
    /\ fallbackColorIndex = 0
    /\ call = [n |-> 0, sighted |-> <<>>]
    /\ regions = <<>>
    /\ inputText = <<>>
    /\ params = [png |-> FALSE, pdf |-> FALSE]
    /\ regionLine = <<>>
    /\ console = <<>>
    /\ files = {}
    /\ pngOps = <<>>
    /\ pdfOps = <<>>
    /\ exitCode = "none"
    /\ breakpoints = <<>>

\* is label in the sequence seq
inSeq(seq, label) == \E k \in 1..Len(seq) : seq[k] = label

\* the number of labels of NovelLabels in seq
novelCount(seq) == Cardinality({k \in 1..Len(seq) : seq[k] \in NovelLabels})

\* one call getColor(label); call records the call and, in sighted, the
\* labels without a default colour in the order they were first passed
ColorCall(label) ==
    /\ pc = "color"
    /\ fallbackColorIndex < MaxCursor
    /\ label \in NovelLabels /\ ~inSeq(call.sighted, label)
           => label = NovelNames[novelCount(call.sighted) + 1]
    /\ LET r == getColor(assignedColors, fallbackColorIndex, label)
           seenBefore == inSeq(call.sighted, label)
       IN  /\ assignedColors' = r.assigned
           /\ fallbackColorIndex' = r.index
           /\ call' = [n |-> 1,
                       label |-> label,
                       threw |-> r.threw,
                       color |-> r.color,
                       seenBefore |-> seenBefore,
                       indexBefore |-> fallbackColorIndex,
                       sighted |-> IF label \in DOMAIN DEFAULT_COLORS
                                      \/ seenBefore
                                   THEN call.sighted
                                   ELSE Append(call.sighted, label)]
    /\ UNCHANGED <<pc, inputText, params, regions, regionLine, console, files,
                   pngOps, pdfOps, exitCode, breakpoints>>

NextColor == \E label \in DefaultLabels \cup NovelLabels \cup InheritedNames :
                 ColorCall(label)

SpecColor == InitColor /\ [][NextColor]_vars

-----------------------------------------------------------------------------
(* Claims about calculateBreakpoints (SpecBP)                              *)

\* the index of the region that is last once the list is sorted by start,
\* ties kept in list order: the latest of the regions with the greatest start
LastByStart(arr) ==
    CHOOSE j \in 1..Len(arr) :
        /\ \A k \in 1..Len(arr) : arr[k].start <= arr[j].start
        /\ \A k \in (j + 1)..Len(arr) : arr[k].start < arr[j].start

\* the smallest start of the list
MinStart(arr) ==
    CHOOSE v \in {arr[k].start : k \in 1..Len(arr)} :
        \A k \in 1..Len(arr) : v <= arr[k].start

\* C1, as claimed: for two or more regions calculateBreakpoints returns
\* exactly 2 entries, the smallest start (isFirst) and the end of the last
\* region in start order (isLast), and no start of an intermediate region.
C1_AsClaimed ==
    (pc = "bp_done" /\ Len(regions) >= 2) =>
        /\ Len(breakpoints) = 2
        /\ breakpoints[1].position = MinStart(regions)
        /\ breakpoints[1].isFirst
        /\ breakpoints[2].position = regions[LastByStart(regions)].end
        /\ breakpoints[2].isLast

\* C1, amended: for n >= 2 regions calculateBreakpoints returns n + 1
\* entries: the start of every region, in ascending order, the first of them
\* flagged isFirst, and then the end of the last region in start order,
\* flagged isLast.  Every region's start appears; no end but the last one.
C1_Breakpoints ==
    (pc = "bp_done" /\ Len(regions) >= 2) =>
        LET n == Len(regions)
        IN  /\ Len(breakpoints) = n + 1
            /\ \A i \in 1..n :
                   /\ breakpoints[i].isFirst = (i = 1)
                   /\ ~breakpoints[i].isLast
                   /\ breakpoints[i].displayValue = breakpoints[i].position
            /\ \A i \in 1..(n - 1) :
                   breakpoints[i].position <= breakpoints[i + 1].position
            /\ \A v \in BPPositions :
                   Cardinality({i \in 1..n : breakpoints[i].position = v})
                       = Cardinality({k \in 1..n : regions[k].start = v})
            /\ breakpoints[n + 1] =
                   [position |-> regions[LastByStart(regions)].end,
                    displayValue |-> regions[LastByStart(regions)].end,
                    isFirst |-> FALSE, isLast |-> TRUE]

\* three regions out of order were given, and the start of the middle one
\* is among the breakpoints returned
C1_Witness ==
    /\ pc = "bp_done"
    /\ Len(regions) = 3
    /\ regions[1].start = 300 /\ regions[2].start = 100
    /\ regions[3].start = 200
    /\ Len(breakpoints) = 4
    /\ breakpoints[2].position = 200

\* C2, as claimed: one region gives a single breakpoint, its start; the end
\* is added only when there are several regions; no region, no breakpoint.
C2_AsClaimed ==
    /\ (pc = "bp_done" /\ Len(regions) = 1) =>
           /\ Len(breakpoints) = 1
           /\ breakpoints[1].position = regions[1].start
    /\ (pc = "bp_done" /\ Len(regions) = 0) => breakpoints = <<>>

\* C2, amended: one region gives two breakpoints, its start (isFirst) and
\* its end (isLast); an empty list gives an empty list.
C2_SingleRegion ==
    /\ (pc = "bp_done" /\ Len(regions) = 1) =>
           breakpoints =
               << [position |-> regions[1].start,
                   displayValue |-> regions[1].start,
                   isFirst |-> TRUE, isLast |-> FALSE],
                  [position |-> regions[1].end,
                   displayValue |-> regions[1].end,
                   isFirst |-> FALSE, isLast |-> TRUE] >>
    /\ (pc = "bp_done" /\ Len(regions) = 0) => breakpoints = <<>>

\* one region from 100 to 300 was given and two breakpoints came back
C2_Witness ==
    /\ pc = "bp_done"
    /\ Len(regions) = 1
    /\ regions[1].start = 100 /\ regions[1].end = 300
    /\ Len(breakpoints) = 2

-----------------------------------------------------------------------------
(* Claim about getColor (SpecColor)                                        *)

\* the place of label in seq
indexIn(seq, label) == CHOOSE k \in 1..Len(seq) : seq[k] = label

\* C3, as claimed: a label of the default table returns its default colour
\* and leaves the cursor alone; the k-th distinct label without a default
\* colour receives FALLBACK_COLORS[(k-1) mod 10] on its first call and on
\* every later one, and a call with a label seen before leaves the cursor
\* alone.
C3_AsClaimed ==
    call.n > 0 =>
        IF call.label \in DOMAIN DEFAULT_COLORS
        THEN /\ ~call.threw
             /\ call.color = DEFAULT_COLORS[call.label]
             /\ fallbackColorIndex = call.indexBefore
        ELSE LET k == indexIn(call.sighted, call.label)
             IN  /\ ~call.threw
                 /\ call.color =
                        FALLBACK_COLORS[((k - 1) % Len(FALLBACK_COLORS)) + 1]
                 /\ call.seenBefore => fallbackColorIndex = call.indexBefore

-----------------------------------------------------------------------------
(* Claims about parseInput (Spec)                                          *)

\* line i of text, trimmed
lineAt(text, i) == trim(text[i])

isHeaderLine(text, i) == startsWith(lineAt(text, i), ">")

hasHeader(text) == \E i \in 1..Len(text) : isHeaderLine(text, i)

\* an optional sign followed by decimal digits and nothing else
isIntegerToken(tok) ==
    LET body == IF startsWith(tok, "-") \/ startsWith(tok, "+")
                THEN Tail(tok) ELSE tok
    IN  body # <<>> /\ \A k \in 1..Len(body) : isDigit(body[k])

\* conditions (a) to (c) of C4 on line i: after the first header, neither
\* blank nor comment nor header, three fields or more
isDataLine(text, i) ==
    /\ \E j \in 1..(i - 1) : isHeaderLine(text, j)
    /\ lineAt(text, i) # <<>>
    /\ ~startsWith(lineAt(text, i), "#")
    /\ ~startsWith(lineAt(text, i), ">")
    /\ Len(split(lineAt(text, i))) >= 3

\* the lines C4 says give a region: a data line whose first two fields are
\* integers
claimedLines(text) ==
    SelectSeq([i \in 1..Len(text) |-> i],
              LAMBDA i : /\ isDataLine(text, i)
                         /\ isIntegerToken(split(lineAt(text, i))[1])
                         /\ isIntegerToken(split(lineAt(text, i))[2]))

\* the main program got a list back from parseInput
parseReturned ==
    /\ pc # "parse"
    /\ ~\E k \in 1..Len(console) : console[k].msg = "uncaught"

\* C4, as claimed: parseInput returns, in file order, exactly one region for
\* each line after the first header that is no blank, comment or header
\* line, has three fields or more and integer first and second fields; no
\* other line gives a region.
C4_AsClaimed ==
    pc # "parse" =>
        /\ parseReturned
        /\ regionLine = claimedLines(inputText)

\* C5: every region parseInput returns has start = min and end = max of the
\* two numbers of its line, in whichever order they were written, so
\* start <= end.
C5_Normalized ==
    parseReturned =>
        \A i \in 1..Len(regions) :
            LET parts == split(lineAt(inputText, regionLine[i]))
                rawA  == parseInt(parts[1]).val
                rawB  == parseInt(parts[2]).val
            IN  /\ regions[i].start <= regions[i].end
                /\ regions[i].start = Math_min(rawA, rawB)
                /\ regions[i].end = Math_max(rawA, rawB)

\* the line " 20<tab>10  X 1 " was parsed into the region from 10 to 20
C5_Witness ==
    /\ parseReturned
    /\ \E i \in 1..Len(regions) :
           /\ inputText[regionLine[i]] = L_X1
           /\ regions[i].start = 10 /\ regions[i].end = 20

\* the console holds the warning that no header was found
warnedNoHeader ==
    \E k \in 1..Len(console) :
        console[k].ch = "warn" /\ console[k].msg = "no_header"

\* a line parseInput makes a region of: a data line whose first two fields
\* parse as numbers
isValidDataLine(text, i) ==
    /\ isDataLine(text, i)
    /\ ~parseInt(split(lineAt(text, i))[1]).nan
    /\ ~parseInt(split(lineAt(text, i))[2]).nan

hasValidDataLine(text) == \E i \in 1..Len(text) : isValidDataLine(text, i)

\* the text holds nothing but whitespace
isWhitespaceOnly(text) == \A i \in 1..Len(text) : lineAt(text, i) = <<>>

\* C6, as claimed: a text with no header line (comment and blank lines only
\* included) gives an empty list and the "no header" warning; a text with a
\* header line but no valid data line gives an empty list without it.
C6_AsClaimed ==
    pc # "parse" =>
        /\ ~hasHeader(inputText) =>
               parseReturned /\ regions = <<>> /\ warnedNoHeader
        /\ (hasHeader(inputText) /\ ~hasValidDataLine(inputText)) =>
               parseReturned /\ regions = <<>> /\ ~warnedNoHeader

\* C6, amended: a text with no header line that holds something other than
\* whitespace gives an empty list and the "no header" warning, once; an
\* empty or whitespace-only text gives an empty list and no warning; a text
\* with a header line but no valid data line gives an empty list without
\* the "no header" warning.
C6_NoHeader ==
    pc # "parse" =>
        /\ (~hasHeader(inputText) /\ ~isWhitespaceOnly(inputText)) =>
               /\ parseReturned /\ regions = <<>>
               /\ Cardinality({k \in 1..Len(console) :
                                   console[k].ch = "warn"
                                   /\ console[k].msg = "no_header"}) = 1
        /\ isWhitespaceOnly(inputText) =>
               /\ parseReturned /\ regions = <<>>
               /\ \A k \in 1..Len(console) : console[k].ch # "warn"
        /\ (hasHeader(inputText) /\ ~hasValidDataLine(inputText)) =>
               parseReturned /\ regions = <<>> /\ ~warnedNoHeader

\* a text of a comment and a line of whitespace was parsed: the list is
\* empty and the warning is on the console
C6_Witness ==
    /\ inputText = <<L_comment, L_blank>>
    /\ parseReturned
    /\ regions = <<>>
    /\ warnedNoHeader

-----------------------------------------------------------------------------
(* Claims about the render pass (Spec)                                     *)

\* the contexts drawn on so far, each as its calls
drawnContexts ==
    (IF "png" \in files THEN {pngOps} ELSE {})
    \cup (IF "pdf" \in files THEN {pdfOps} ELSE {})

\* the overlay rectangles among calls: the rectangles filled at alpha 0.8,
\* each with the fill colour set just before it
overlaysDrawn(calls) ==
    LET at == SelectSeq([k \in 1..Len(calls) |-> k],
                  LAMBDA k : /\ k >= 3
                             /\ calls[k].call = "fillRect"
                             /\ calls[k - 1] = Set("fillStyle", calls[k - 1].value)
                             /\ calls[k - 2] = Set("globalAlpha", "0.8"))
    IN  [m \in 1..Len(at) |->
            [x |-> calls[at[m]].x, y |-> calls[at[m]].y,
             w |-> calls[at[m]].w, h |-> calls[at[m]].h,
             color |-> calls[at[m] - 1].value]]

\* the (region, gene feature) pairs, region by region, that share more than
\* a point, each as the rectangle from the greater start to the smaller end
\* on the feature's row
overlaysExpected(arr) ==
    LET g == Len(GENE_MAP)
        regionOf(p) == arr[((p - 1) \div g) + 1]
        geneOf(p)   == GENE_MAP[((p - 1) % g) + 1]
        lo(p) == Math_max(regionOf(p).start, geneOf(p).start)
        hi(p) == Math_min(regionOf(p).end, geneOf(p).end)
        at == SelectSeq([p \in 1..(Len(arr) * g) |-> p],
                        LAMBDA p : lo(p) < hi(p))
    IN  [m \in 1..Len(at) |->
            [x |-> xScale(lo(at[m])), y |-> getRowY(geneOf(at[m]).row),
             w |-> xScale(hi(at[m])) - xScale(lo(at[m])), h |-> RowHeight,
             color |-> regionOf(at[m]).color]]

\* C7: a render pass draws an overlay rectangle for a (region, gene feature)
\* pair exactly when max(region.start, feature.start) <
\* min(region.end, feature.end); it spans the greater start to the smaller
\* end on the feature's row; a region over several features gets one per
\* feature, and a pair that only touches at an endpoint gets none.
C7_Overlays ==
    \A calls \in drawnContexts :
        overlaysDrawn(calls) = overlaysExpected(regions)

\* the PNG pass drew the region 500..1000, which lies over 5' LTR and gag,
\* and the region 634..790, which only touches them: two overlays in all
C7_Witness ==
    /\ inputText = <<L_header, L_A1, L_proto>>
    /\ "png" \in files
    /\ Len(regions) = 2
    /\ Len(overlaysDrawn(pngOps)) = 2

\* the legend entries among calls: the swatches filled on the legend line,
\* each with the colour set just before it and the text drawn beside it
legendDrawn(calls) ==
    LET legendY == Px(RENDER_CONFIG.height - 30)
        at == SelectSeq([k \in 1..Len(calls) |-> k],
                  LAMBDA k : /\ calls[k].call = "fillRect"
                             /\ calls[k].y = legendY
                             /\ calls[k].w = Px(15))
    IN  [m \in 1..Len(at) |->
            [x |-> calls[at[m]].x,
             color |-> calls[at[m] - 1].value,
             subtype |-> calls[at[m] + 7].text,
             textX |-> calls[at[m] + 7].x]]

\* the regions that are the first of their label, in list order
firstOfLabel(arr) ==
    SelectSeq([i \in 1..Len(arr) |-> i],
              LAMBDA i : \A j \in 1..(i - 1) : arr[j].subtype # arr[i].subtype)

\* C8: the legend has one entry per distinct label of the regions, in order
\* of first occurrence, with the colour of the label's first region; entry i
\* (from 0) is at x = left margin + 80 * i.
C8_Legend ==
    \A calls \in drawnContexts :
        LET first == firstOfLabel(regions)
        IN  legendDrawn(calls) =
                [m \in 1..Len(first) |->
                    [x |-> Px(RENDER_CONFIG.margin.left + 80 * (m - 1)),
                     color |-> regions[first[m]].color,
                     subtype |-> regions[first[m]].subtype,
                     textX |-> Px(RENDER_CONFIG.margin.left + 80 * (m - 1) + 20)]]

\* the regions B then A1 were drawn: the legend is the swatches B, A1
C8_Witness ==
    /\ inputText = <<L_header, L_B, L_A1>>
    /\ "png" \in files
    /\ Len(legendDrawn(pngOps)) = 2
    /\ legendDrawn(pngOps)[1].subtype = "B"
    /\ legendDrawn(pngOps)[2].subtype = "A1"

-----------------------------------------------------------------------------
(* Claims about the main program (Spec)                                    *)

\* parsing gave no region
zeroRegions == parseReturned /\ regions = <<>>

\* the run ended with a non-zero status and wrote no file
fatal == pc = "exit" /\ exitCode = 1 /\ files = {}

\* C9, as claimed: zero regions end the run with a non-zero status before
\* any file is written, with no header and with a header but no valid data
\* line alike, and the two cases are told apart by the diagnostics (the "no
\* header" warning is printed in the first and not in the second).
C9_AsClaimed ==
    zeroRegions =>
        /\ fatal
        /\ warnedNoHeader = ~hasHeader(inputText)

\* the console holds the log of a header line
loggedHeader ==
    \E k \in 1..Len(console) :
        console[k].ch = "log" /\ console[k].msg = "header"

\* the warnings and errors on the console, in order
diagnostics == SelectSeq(console, LAMBDA e : e.ch \in {"warn", "error"})

\* C9, amended: zero regions end the run with a non-zero status before any
\* file is written, with no header and with a header but no valid data line
\* alike, both with the same final error; the "no header" warning tells the
\* two cases apart whenever the text without a header holds something other
\* than whitespace; for an empty or whitespace-only text the warnings and
\* errors are that one error and nothing else, as for a header without
\* data, and only the log of the header line tells the two apart.
C9_Fatal ==
    zeroRegions =>
        /\ fatal
        /\ console[Len(console)] = [ch |-> "error", msg |-> "no_data"]
        /\ warnedNoHeader =
               (~hasHeader(inputText) /\ ~isWhitespaceOnly(inputText))
        /\ isWhitespaceOnly(inputText) =>
               diagnostics = << [ch |-> "error", msg |-> "no_data"] >>
        /\ loggedHeader = hasHeader(inputText)

\* a header followed by a line of two fields: the run ended with status 1,
\* no file and no "no header" warning
C9_Witness ==
    /\ inputText = <<L_header, L_short>>
    /\ zeroRegions
    /\ fatal
    /\ ~warnedNoHeader

\* parseInput on the input text, from the registry of a fresh process
parsed == parseInput(inputText, EmptyObject, 0, <<>>)

\* C10: a render pass leaves the region list (contents and order), the
\* colour registry and the fallback cursor as parsing left them, and the PNG
\* pass and the PDF pass issue the same calls in the same order.
C10_RenderFrame ==
    pc \in {"pdf", "done"} =>
        /\ regions = parsed.regions
        /\ assignedColors = parsed.assigned
        /\ fallbackColorIndex = parsed.index
        /\ files = {"png", "pdf"} => pngOps = pdfOps

\* both passes ran over two regions that are not in start order
C10_Witness ==
    /\ pc = "done"
    /\ files = {"png", "pdf"}
    /\ Len(regions) = 2
    /\ regions[1].start > regions[2].start
    /\ pngOps = pdfOps
    /\ pngOps # <<>>

=============================================================================
